---- MODULE Spec2Model ----
(***************************************************************************)
(* Second-new-high screening strategy (strategy_bot_v2.py).                *)
(*                                                                         *)
(* The state is the data dictionary handed to the evaluator (close, volume *)
(* and monthly-revenue panels, one column per instrument) together with    *)
(* the evaluator's loop position, the per-instrument locals of             *)
(* calculate_second_high_conditions and its results list.                  *)
(*                                                                         *)
(* Four specifications share the state:                                    *)
(*   Spec      calculate_second_high_conditions called on a data           *)
(*             dictionary                                                  *)
(*   OrderSpec the same with the columns iterated in either order          *)
(*   RunSpec   run_analysis from initialisation to its return value        *)
(*   UnitSpec  the helpers applied to bounded inputs: the ranking, the     *)
(*             append step with the technical metrics, the sibling         *)
(*             controller's technical score and candidate selection, and   *)
(*             send_telegram_message                                       *)
(*                                                                         *)
(* Prices, volumes and revenues are integers (ticks, shares, thousands);   *)
(* a missing observation is NaN.  Positions in a series are 1-based; the   *)
(* pandas expression s.iloc[-k] is ILoc(s, k).                             *)
(***************************************************************************)
EXTENDS Integers, Sequences, FiniteSets, TLC

(***************************************************************************)
(* Strategy parameters set in __init__.                                    *)
(***************************************************************************)
lookback_period == 60
gap_period == 30
confirmation_period == 25
long_term_period == 120
medium_term_period == 60
revenue_short == 3
revenue_long == 12
volume_short == 5
volume_long == 20
\* the literal -55 of stock_close.iloc[-55:-self.gap_period]
check_start == 55
\* the literal 10 of len(stock_close) < self.long_term_period + 10
history_margin == 10
\* apply_basic_filters: min(250, len(close) * 0.8), latest_price >= 10,
\* volume.rolling(20).mean().iloc[-1] >= 1000
history_cap == 250
min_price == 10
filter_window == 20
min_volume == 1000
\* format_results_message: results_df.head(10)
report_rows == 10
\* send_telegram_message: max_length
max_length == 4000

(***************************************************************************)
(* Bounds of the explored inputs.                                          *)
(***************************************************************************)
\* the longest panel explored, in sessions
MaxDays == 130
\* the longest revenue panel explored, in months
MaxMonths == 12
\* how many places an explored data dictionary differs from the baseline
MaxEdits == 1
\* the longest list of records handed to the ranker
MaxRows == 3
\* the most lines a message handed to send_telegram_message has
MaxLines == 3
\* the length of the long panel run_analysis is explored on: 80% of it is
\* more than the 250 sessions that always suffice
LongDays == 315

(***************************************************************************)
(* pandas / numpy semantics used by the evaluator.                         *)
(***************************************************************************)
\* a missing observation; every ordered comparison with it is False
NaN == -1
\* an entry that is not a number: arithmetic on it raises
NotANumber == -2

Max2(a, b) == IF a >= b THEN a ELSE b
Min2(a, b) == IF a <= b THEN a ELSE b

Range(s) == {s[i] : i \in DOMAIN s}

\* Series.dropna()
Dropna(s) == SelectSeq(s, LAMBDA x : x # NaN)

\* s.iloc[-k]
ILoc(s, k) == s[Len(s) - k + 1]

\* s.iloc[-a:-b]  (a > b > 0; a start before the first row is clipped)
ISlice(s, a, b) == SubSeq(s, Max2(1, Len(s) - a + 1), Len(s) - b)

\* s.tail(k)
TailN(s, k) == SubSeq(s, Max2(1, Len(s) - k + 1), Len(s))

\* x < y, x > y, x >= y on floats: False when either side is NaN
Lt(x, y) == x # NaN /\ y # NaN /\ x < y
Gt(x, y) == x # NaN /\ y # NaN /\ x > y
Ge(x, y) == x # NaN /\ y # NaN /\ x >= y

\* Series.max(): the largest non-missing value, NaN when there is none
SeqMax(s) ==
  LET vals == Range(s) \ {NaN}
  IN IF vals = {} THEN NaN ELSE CHOOSE x \in vals : \A y \in vals : y <= x

\* Series.sum() of a series without missing values
RECURSIVE SeqSum(_)
SeqSum(s) ==
  IF Len(s) = 0 THEN 0
  ELSE IF Len(s) = 1 THEN s[1]
  ELSE SeqSum(SubSeq(s, 1, Len(s) \div 2))
       + SeqSum(SubSeq(s, Len(s) \div 2 + 1, Len(s)))

\* s.rolling(w).max(): min_periods defaults to w, so a row with fewer than
\* w observations behind it (itself included), or a missing one among
\* them, is NaN
RollingMax(s, w) ==
  [i \in 1..Len(s) |->
     IF i < w THEN NaN
     ELSE LET win == SubSeq(s, i - w + 1, i)
          IN IF NaN \in Range(win) THEN NaN ELSE SeqMax(win)]

\* (a < b).any() for two series on the same index
AnyLt(a, b) == \E i \in 1..Len(a) : Lt(a[i], b[i])
\* (a >= b).any()
AnyGe(a, b) == \E i \in 1..Len(a) : Ge(a[i], b[i])

(***************************************************************************)
(* The explored data dictionaries: the worked example of the design        *)
(* document for every instrument, changed in at most MaxEdits places.      *)
(***************************************************************************)
StockIds == {"2330", "2317"}
\* close_filtered.columns, in iteration order
Columns == <<"2330", "2317">>

\* offsets from the evaluation date (1 = the evaluation date itself) at
\* which a close is changed: both sides of every window edge of the rules
KeyOffsets == {1, 15, 30, 31, 40, 55, 56, 60, 61, 120, 121}
EditValues == {NaN, 104, 105, 110}
\* where a close that is not a number is planted
BadOffsets == {15}

\* the example history: base 100, latest 105, a dip to 98 at -15, a high of
\* 104 at -40, 99 sixty sessions back and 95 a hundred and twenty back
BaseClose(n) ==
  [i \in 1..n |->
     LET k == n - i + 1
     IN CASE k = 1 -> 105
          [] k = 15 -> 98
          [] k = 40 -> 104
          [] k \in {60, 61} -> 99
          [] k \in {120, 121} -> 95
          [] OTHER -> 100]

VolumeKinds == {"flat", "exact", "exact_b", "above", "short", "gap", "thin", "bad"}
\* a volume column of n sessions
\*   expand: 5-session mean 1300 = 1.3 x the 20-session mean 1000
\*   exact : 5-session mean 1800 = 1.2 x the 20-session mean 1500
\*   exact_b: 5-session mean 9001.2 = 1.2 x the 20-session mean 7501
\*   above : one share more than exact in each of the last 5 sessions
\*   flat  : 1000 every session
\*   short : flat, but only the last 19 sessions are observed
\*   gap   : expand with the evaluation date's volume missing
\*   thin  : flat, but 999 ten sessions back (20-session mean 999.95)
\*   bad   : expand with an entry that is not a number three sessions back
VolumeColumn(n, kind) ==
  [i \in 1..n |->
     LET k == n - i + 1
     IN CASE kind = "expand" -> IF k <= 5 THEN 1300 ELSE 900
          [] kind = "exact" -> IF k <= 5 THEN 1800 ELSE 1400
          [] kind = "exact_b" ->
               IF k <= 4 THEN 9001 ELSE IF k = 5 THEN 9002
               ELSE IF k = 20 THEN 7000 ELSE 7001
          [] kind = "above" -> IF k <= 5 THEN 1801 ELSE 1400
          [] kind = "flat" -> 1000
          [] kind = "short" -> IF k <= 19 THEN 1000 ELSE NaN
          [] kind = "thin" -> IF k = 10 THEN 999 ELSE 1000
          [] kind = "bad" ->
               IF k = 3 THEN NotANumber ELSE IF k <= 5 THEN 1300 ELSE 900
          [] OTHER -> IF k = 1 THEN NaN ELSE IF k <= 5 THEN 1300 ELSE 900]

RevenueKinds == {"equal", "decel", "short", "gap", "bad"}
\* a revenue column of m months
\*   accel : 3-month mean 110 > 12-month mean 100
\*   equal : 100 every month
\*   decel : 3-month mean 90 < 12-month mean 97.5
\*   short : decel, but only the last 11 months are reported
\*   gap   : decel with the month before last missing
\*   bad   : accel with a non-numeric entry in the last month
RevenueColumn(m, kind) ==
  [i \in 1..m |->
     LET k == m - i + 1
     IN CASE kind = "accel" ->
               IF k <= 3 THEN 110 ELSE IF k % 3 = 0 THEN 96 ELSE 97
          [] kind = "equal" -> 100
          [] kind = "decel" -> IF k <= 3 THEN 90 ELSE 100
          [] kind = "short" ->
               IF k > 11 THEN NaN ELSE IF k <= 3 THEN 90 ELSE 100
          [] kind = "gap" ->
               IF k = 2 THEN NaN ELSE IF k <= 3 THEN 90 ELSE 100
          [] OTHER ->
               IF k = 1 THEN NotANumber
               ELSE IF k <= 3 THEN 110 ELSE IF k % 3 = 0 THEN 96 ELSE 97]

\* a panel that could not be obtained (None)
NoPanel == [none |-> TRUE, df |-> <<>>]
Panel(cols) == [none |-> FALSE, df |-> cols]

BaseData(n) ==
  [close |-> [s \in StockIds |-> BaseClose(n)],
   volume |-> Panel([s \in StockIds |-> VolumeColumn(n, "expand")]),
   monthly_revenue |-> Panel([s \in StockIds |-> RevenueColumn(MaxMonths, "accel")])]

Edits ==
  {[panel |-> "close", stock |-> s, kind |-> "cell", off |-> k, val |-> v] :
      s \in StockIds, k \in KeyOffsets, v \in EditValues}
  \cup {[panel |-> "close", stock |-> s, kind |-> "cell", off |-> k, val |-> NotANumber] :
      s \in StockIds, k \in BadOffsets}
  \cup {[panel |-> "volume", stock |-> s, kind |-> kd, off |-> 0, val |-> 0] :
      s \in StockIds, kd \in VolumeKinds \cup {"nocol"}}
  \cup {[panel |-> "monthly_revenue", stock |-> s, kind |-> kd, off |-> 0, val |-> 0] :
      s \in StockIds, kd \in RevenueKinds \cup {"nocol"}}
  \cup {[panel |-> p, stock |-> Columns[1], kind |-> "none", off |-> 0, val |-> 0] :
      p \in {"volume", "monthly_revenue"}}

DropColumn(p, s) ==
  IF p.none THEN p ELSE Panel([c \in (DOMAIN p.df) \ {s} |-> p.df[c]])
SetColumn(p, s, col) ==
  IF p.none THEN p ELSE Panel([c \in (DOMAIN p.df) \cup {s} |-> IF c = s THEN col ELSE p.df[c]])

\* a close column whose first `missing` rows are not observed
Sparse(col, missing) == [j \in 1..Len(col) |-> IF j <= missing THEN NaN ELSE col[j]]

ApplyEdit(dd, n, e) ==
  CASE e.panel = "close" /\ e.kind = "sparse" ->
         [dd EXCEPT !.close[e.stock] = Sparse(@, e.off)]
    [] e.panel = "close" ->
         [dd EXCEPT !.close[e.stock][n - e.off + 1] = e.val]
    [] e.panel = "volume" ->
         [dd EXCEPT !.volume =
            CASE e.kind = "none" -> NoPanel
              [] e.kind = "nocol" -> DropColumn(@, e.stock)
              [] OTHER -> SetColumn(@, e.stock, VolumeColumn(n, e.kind))]
    [] OTHER ->
         [dd EXCEPT !.monthly_revenue =
            CASE e.kind = "none" -> NoPanel
              [] e.kind = "nocol" -> DropColumn(@, e.stock)
              [] OTHER -> SetColumn(@, e.stock, RevenueColumn(MaxMonths, e.kind))]

RECURSIVE ApplyEdits(_, _, _)
ApplyEdits(dd, n, es) ==
  IF es = <<>> THEN dd ELSE ApplyEdits(ApplyEdit(dd, n, Head(es)), n, Tail(es))

\* the panel lengths explored: one session short of the evaluator's minimum
\* history, and up
DayCounts == (long_term_period + history_margin - 1)..MaxDays

InputData ==
  {ApplyEdits(BaseData(n), n, es) :
     n \in DayCounts, es \in UNION {[1..j -> Edits] : j \in 0..MaxEdits}}

(***************************************************************************)
(* Floating point.  The means and the product volume_20d * 1.2 are IEEE    *)
(* binary64 values.  A Float >= 0 is a 53-bit significand (bits, most      *)
(* significant first, leading 1) times 2^exp; zero has no significand.     *)
(* Every operation rounds its exact result to nearest, ties to even.       *)
(***************************************************************************)
\* bits of the significand of a binary64
SigBits == 53
\* bits per limb of the significand product
LimbBits == 13
LimbBase == 8192

FZero == [sig |-> <<>>, exp |-> 0]

Zeros(n) == [j \in 1..n |-> 0]

Pow2(k) == 2 ^ k

\* the number of binary digits of n, 0 <= n < 2^31
BitLength(n) ==
  CHOOSE len \in 0..31 :
    (len = 31 \/ n < Pow2(len)) /\ (len = 0 \/ Pow2(len - 1) <= n)

\* the binary digits of n >= 0, most significant first (none for 0)
IntBits(n) ==
  [j \in 1..BitLength(n) |-> (n \div Pow2(BitLength(n) - j)) % 2]

\* the number a short bit string denotes
BitsVal(bits) ==
  SeqSum([j \in 1..Len(bits) |-> bits[j] * Pow2(Len(bits) - j)])

\* bits + 1 (one bit longer when every bit was 1)
Increment(bits) ==
  LET zeros == {j \in 1..Len(bits) : bits[j] = 0}
  IN IF zeros = {} THEN <<1>> \o Zeros(Len(bits))
     ELSE LET last == CHOOSE j \in zeros : \A h \in zeros : h <= j
          IN [j \in 1..Len(bits) |->
                IF j < last THEN bits[j] ELSE IF j = last THEN 1 ELSE 0]

\* bits without its leading zeros
StripZeros(bits) ==
  LET ones == {j \in 1..Len(bits) : bits[j] = 1}
  IN IF ones = {} THEN <<>>
     ELSE SubSeq(bits, CHOOSE j \in ones : \A h \in ones : j <= h, Len(bits))

\* round (bits + a fraction in (0,1) when sticky) * 2^exp to a Float;
\* bits starts with 1
RoundSig(bits, sticky, exp) ==
  IF Len(bits) <= SigBits
  THEN [sig |-> bits \o Zeros(SigBits - Len(bits)),
        exp |-> exp - (SigBits - Len(bits))]
  ELSE LET keep == SubSeq(bits, 1, SigBits)
           drop == Len(bits) - SigBits
           half == bits[SigBits + 1] = 1
           rest == sticky \/ \E j \in (SigBits + 2)..Len(bits) : bits[j] = 1
           up == half /\ (rest \/ keep[SigBits] = 1)
           inc == Increment(keep)
       IN IF ~up THEN [sig |-> keep, exp |-> exp + drop]
          ELSE IF Len(inc) > SigBits
               THEN [sig |-> SubSeq(inc, 1, SigBits), exp |-> exp + drop + 1]
               ELSE [sig |-> inc, exp |-> exp + drop]

\* the least k with num * 2^k >= den  (num > 0)
NormShift(num, den) ==
  CHOOSE k \in 0..17 :
    num * Pow2(k) >= den /\ (k = 0 \/ num * Pow2(k - 1) < den)

\* limbs back to a bit string, most significant first
LimbsToBits(limbs) ==
  [j \in 1..(LimbBits * Len(limbs)) |->
     LET place == LimbBits * Len(limbs) - j
     IN (limbs[place \div LimbBits + 1] \div Pow2(place % LimbBits)) % 2]

\* the next count limbs of the quotient rem / den (rem < den), least
\* significant first, and what is left of the dividend
RECURSIVE FracLimbs(_, _, _)
FracLimbs(rem, den, count) ==
  IF count = 0 THEN [limbs |-> <<>>, rem |-> rem]
  ELSE LET r == FracLimbs((LimbBase * rem) % den, den, count - 1)
       IN [limbs |-> Append(r.limbs, (LimbBase * rem) \div den), rem |-> r.rem]

\* limbs of quotient kept behind the binary point: more than a significand
FracCount == 5

\* float(num) / float(den) for integers 0 <= num < 2^31, 0 < den < 2^17
FDiv(num, den) ==
  IF num = 0 THEN FZero
  ELSE LET k == NormShift(num, den)
           scaled == num * Pow2(k)
           whole == IntBits(scaled \div den)
           frac == FracLimbs(scaled % den, den, FracCount)
       IN RoundSig(whole \o LimbsToBits(frac.limbs), frac.rem # 0,
                   0 - k - FracCount * LimbBits)

\* a bit string as limbs, least significant limb first
Limbs(bits) ==
  [j \in 1..((Len(bits) + LimbBits - 1) \div LimbBits) |->
     BitsVal(SubSeq(bits, Max2(1, Len(bits) - LimbBits * j + 1),
                    Len(bits) - LimbBits * (j - 1)))]

\* the sum of a[p] * b[q] over the limbs with (p - 1) + (q - 1) = k
ColumnSum(a, b, k) ==
  SeqSum([p \in 1..Len(a) |->
            IF k - p + 2 \in 1..Len(b) THEN a[p] * b[k - p + 2] ELSE 0])

\* the limbs of a * b from limb k on, given the carry into limb k
RECURSIVE MulFrom(_, _, _, _)
MulFrom(a, b, k, carry) ==
  IF k > Len(a) + Len(b) - 1 THEN <<>>
  ELSE LET t == ColumnSum(a, b, k) + carry
       IN <<t % LimbBase>> \o MulFrom(a, b, k + 1, t \div LimbBase)

\* x * y
FMul(x, y) ==
  IF x.sig = <<>> \/ y.sig = <<>> THEN FZero
  ELSE RoundSig(StripZeros(LimbsToBits(MulFrom(Limbs(x.sig), Limbs(y.sig), 0, 0))),
                FALSE, x.exp + y.exp)

\* the first place two significands differ, 0 when they are equal
FirstDiff(a, b) ==
  IF a = b THEN 0
  ELSE CHOOSE j \in 1..SigBits : a[j] # b[j] /\ \A h \in 1..(j - 1) : a[h] = b[h]

\* x > y
FGt(x, y) ==
  IF x.sig = <<>> THEN FALSE
  ELSE IF y.sig = <<>> THEN TRUE
  ELSE IF x.exp # y.exp THEN x.exp > y.exp
  ELSE LET j == FirstDiff(x.sig, y.sig) IN j # 0 /\ x.sig[j] > y.sig[j]

\* Series.mean() of a non-empty series of whole numbers: the sum is exact,
\* the division rounds
Mean(s) == FDiv(SeqSum(s), Len(s))

\* the literal 1.2: the binary64 nearest to 12/10
Literal_1_2 == FDiv(12, 10)
\* the literal 0.8
Literal_0_8 == FDiv(8, 10)
\* the literal 0.2
Literal_0_2 == FDiv(2, 10)

\* float(n) of a whole number
FromInt(n) == FDiv(n, 1)
\* x >= y
FGe(x, y) == ~FGt(y, x)

(***************************************************************************)
(* check_revenue_growth and check_volume_expansion.                        *)
(***************************************************************************)
\* arithmetic on the series raises (an entry is not a number)
Raises(s) == NotANumber \in Range(s)
\* check_revenue_growth failing closed on a history shorter than 12 months
CheckRevenueGrowthFailClosed(stock_id, dd) ==
  LET monthly_revenue == dd.monthly_revenue
  IN IF monthly_revenue.none \/ stock_id \notin DOMAIN monthly_revenue.df
     THEN TRUE
     ELSE LET revenue_data == Dropna(monthly_revenue.df[stock_id])
          IN IF Len(revenue_data) < revenue_long THEN FALSE
             ELSE LET recent_3m == TailN(revenue_data, revenue_short)
                      recent_12m == TailN(revenue_data, revenue_long)
                  IN IF Raises(recent_3m) \/ Raises(recent_12m) THEN TRUE
                     ELSE FGt(Mean(recent_3m), Mean(recent_12m))

\* check_revenue_growth failing closed when there is no revenue panel
CheckRevenueGrowthNeedsPanel(stock_id, dd) ==
  LET monthly_revenue == dd.monthly_revenue
  IN IF monthly_revenue.none THEN FALSE
     ELSE IF stock_id \notin DOMAIN monthly_revenue.df THEN TRUE
     ELSE LET revenue_data == Dropna(monthly_revenue.df[stock_id])
          IN IF Len(revenue_data) < revenue_long THEN TRUE
             ELSE LET recent_3m == TailN(revenue_data, revenue_short)
                      recent_12m == TailN(revenue_data, revenue_long)
                  IN IF Raises(recent_3m) \/ Raises(recent_12m) THEN TRUE
                     ELSE FGt(Mean(recent_3m), Mean(recent_12m))

\* check_revenue_growth: True without a revenue panel, without a column for
\* the instrument, with fewer than 12 months or when the means raise
CheckRevenueGrowth(stock_id, dd) ==
  LET monthly_revenue == dd.monthly_revenue
  IN IF monthly_revenue.none \/ stock_id \notin DOMAIN monthly_revenue.df
     THEN TRUE
     ELSE LET revenue_data == Dropna(monthly_revenue.df[stock_id])
          IN IF Len(revenue_data) < revenue_long THEN TRUE
             ELSE LET recent_3m == TailN(revenue_data, revenue_short)
                      recent_12m == TailN(revenue_data, revenue_long)
                  IN IF Raises(recent_3m) \/ Raises(recent_12m) THEN TRUE
                     ELSE FGt(Mean(recent_3m), Mean(recent_12m))

\* check_volume_expansion reading the first instrument's column for every
\* instrument
CheckVolumeExpansionFirstColumn(stock_id, dd) ==
  LET volume == dd.volume
      first == Columns[1]
  IN IF volume.none \/ first \notin DOMAIN volume.df
     THEN TRUE
     ELSE LET volume_data == Dropna(volume.df[first])
          IN IF Len(volume_data) < volume_long THEN TRUE
             ELSE LET volume_5d == TailN(volume_data, volume_short)
                      volume_20d == TailN(volume_data, volume_long)
                  IN IF Raises(volume_5d) \/ Raises(volume_20d) THEN TRUE
                     ELSE FGt(Mean(volume_5d), FMul(Mean(volume_20d), Literal_1_2))

\* check_volume_expansion: True without a volume panel, without a column for
\* the instrument, with fewer than 20 volumes or when the means raise
CheckVolumeExpansion(stock_id, dd) ==
  LET volume == dd.volume
  IN IF volume.none \/ stock_id \notin DOMAIN volume.df
     THEN TRUE
     ELSE LET volume_data == Dropna(volume.df[stock_id])
          IN IF Len(volume_data) < volume_long THEN TRUE
             ELSE LET volume_5d == TailN(volume_data, volume_short)
                      volume_20d == TailN(volume_data, volume_long)
                  IN IF Raises(volume_5d) \/ Raises(volume_20d) THEN TRUE
                     ELSE FGt(Mean(volume_5d), FMul(Mean(volume_20d), Literal_1_2))

(***************************************************************************)
(* The eight conditions of calculate_second_high_conditions, each from the *)
(* instrument's non-missing closes stock_close.                            *)
(***************************************************************************)
\* the history guard without its margin of 10 sessions
InsufficientHistoryNoMargin(stock_close) ==
  Len(stock_close) < long_term_period

\* len(stock_close) < self.long_term_period + 10: continue
InsufficientHistory(stock_close) ==
  Len(stock_close) < long_term_period + history_margin
\* condition 1 with a strict comparison
Condition1Strict(stock_close) ==
  LET latest_price == ILoc(stock_close, 1)
      high_60d == ILoc(RollingMax(stock_close, lookback_period), 1)
  IN Gt(latest_price, high_60d)


Condition1(stock_close) ==
  LET latest_price == ILoc(stock_close, 1)
      high_60d == ILoc(RollingMax(stock_close, lookback_period), 1)
  IN Ge(latest_price, high_60d)

Condition2(stock_close) ==
  LET past_30d_prices == ISlice(stock_close, gap_period + 1, 1)
      past_30d_highs == RollingMax(past_30d_prices, lookback_period)
  IN AnyLt(past_30d_prices, past_30d_highs)

CheckPeriod(stock_close) == ISlice(stock_close, check_start, gap_period)

Condition3(stock_close) ==
  LET check_period == CheckPeriod(stock_close)
      historical_highs == RollingMax(check_period, lookback_period)
  IN AnyGe(check_period, historical_highs)

ResistanceLevel(stock_close) == SeqMax(ISlice(stock_close, check_start, gap_period))
\* condition 4 with an inclusive comparison
Condition4Inclusive(stock_close) ==
  Ge(ILoc(stock_close, 1), ResistanceLevel(stock_close))


Condition4(stock_close) ==
  Gt(ILoc(stock_close, 1), ResistanceLevel(stock_close))

Condition5(stock_close) ==
  IF Len(stock_close) >= long_term_period
  THEN Gt(ILoc(stock_close, 1), ILoc(stock_close, long_term_period))
  ELSE FALSE

Condition6(stock_close) ==
  IF Len(stock_close) >= medium_term_period
  THEN Gt(ILoc(stock_close, 1), ILoc(stock_close, medium_term_period))
  ELSE FALSE
\* any(all_conditions) in place of all(all_conditions)
AnyCondition(all_conditions) ==
  \E j \in 1..Len(all_conditions) : all_conditions[j]

\* all(all_conditions)
AllConditions(all_conditions) ==
  \A j \in 1..Len(all_conditions) : all_conditions[j]

\* sum(all_conditions)
ConditionsMet(all_conditions) ==
  Cardinality({j \in 1..Len(all_conditions) : all_conditions[j]})

(***************************************************************************)
(* One iteration of the evaluator's loop.  The outcome records how far the *)
(* iteration went (stage), the conditions it had computed by then, and the *)
(* record it appended to results, if any.  A close column that holds an    *)
(* entry that is not a number has dtype object: dropna() and iloc[-1] work *)
(* on it, rolling(60).max() raises, and the loop's except clause catches   *)
(* that (stage "raised").                                                  *)
(***************************************************************************)
NoRecord == <<>>

Outcome(stage, conds, rec) == [stage |-> stage, conds |-> conds, appended |-> rec]

(***************************************************************************)
(* calculate_technical_metrics.  A metric is a literal of the code         *)
(* (Number), a binary64 mean (Float), or a value kept as the expression    *)
(* and the data it is computed from (Expr): the RSI, the volatility and    *)
(* the quotient of the two volume means.                                   *)
(***************************************************************************)
Number(literal) == [const |-> literal]
Float(x) == [float |-> x]
Expr(name, data) == [expr |-> name, of |-> data]

\* the volume block is entered: a volume panel with a column for the
\* instrument that has at least 20 non-missing volumes
HasVolumeHistory(dd, stock_id) ==
  /\ ~dd.volume.none
  /\ stock_id \in DOMAIN dd.volume.df
  /\ Len(Dropna(dd.volume.df[stock_id])) >= volume_long

\* an exception inside the try: arithmetic on a close or on one of the last
\* 20 volumes that is not a number
TechnicalMetricsRaise(stock_close, dd, stock_id) ==
  \/ Raises(stock_close)
  \/ /\ HasVolumeHistory(dd, stock_id)
     /\ Raises(TailN(Dropna(dd.volume.df[stock_id]), volume_long))

\* the except clause's return value
NeutralDefaults ==
  [ma5 |-> Number("0"), ma10 |-> Number("0"), ma20 |-> Number("0"),
   rsi |-> Number("50"), volume_ratio |-> Number("1.0"),
   volatility |-> Number("0")]

\* volume_ratio = volume_5d / volume_20d if volume_20d > 0 else 1.0
VolumeRatio(dd, stock_id) ==
  IF ~HasVolumeHistory(dd, stock_id) THEN Number("1.0")
  ELSE LET volume_data == Dropna(dd.volume.df[stock_id])
           volume_5d == Mean(TailN(volume_data, volume_short))
           volume_20d == Mean(TailN(volume_data, volume_long))
       IN IF FGt(volume_20d, FZero) THEN Expr("div", <<volume_5d, volume_20d>>)
          ELSE Number("1.0")

\* calculate_technical_metrics
CalculateTechnicalMetrics(stock_close, dd, stock_id) ==
  IF TechnicalMetricsRaise(stock_close, dd, stock_id)
  THEN NeutralDefaults
  ELSE [ma5 |-> Float(Mean(TailN(stock_close, 5))),
        ma10 |-> Float(Mean(TailN(stock_close, 10))),
        ma20 |-> Float(Mean(TailN(stock_close, 20))),
        rsi |-> Expr("rsi", TailN(stock_close, 15)),
        volume_ratio |-> VolumeRatio(dd, stock_id),
        volatility |-> Expr("volatility", TailN(stock_close, 21))]

\* (price / base - 1) * 100 > 0 in binary64: the quotient exceeds 1.0
GainPositive(price, base) == FGt(FDiv(price, base), FromInt(1))

\* the dictionary with the 60-session high stored as the resistance level
ResultRecordWindowHigh(stock_id, stock_close, dd, all_conditions) ==
  [stock_id |-> stock_id,
   latest_price |-> ILoc(stock_close, 1),
   resistance_break |-> SeqMax(TailN(stock_close, lookback_period)),
   price_120d_ago |-> ILoc(stock_close, long_term_period),
   price_60d_ago |-> ILoc(stock_close, medium_term_period),
   conditions_met |-> ConditionsMet(all_conditions),
   condition_details |-> all_conditions]
  @@ CalculateTechnicalMetrics(stock_close, dd, stock_id)

\* the dictionary appended to results at lines 234-256
ResultRecord(stock_id, stock_close, dd, all_conditions) ==
  [stock_id |-> stock_id,
   latest_price |-> ILoc(stock_close, 1),
   resistance_break |-> ResistanceLevel(stock_close),
   price_120d_ago |-> ILoc(stock_close, long_term_period),
   price_60d_ago |-> ILoc(stock_close, medium_term_period),
   conditions_met |-> ConditionsMet(all_conditions),
   condition_details |-> all_conditions]
  @@ CalculateTechnicalMetrics(stock_close, dd, stock_id)

\* the body of `if all(all_conditions):` for a record that is dropped when
\* its metrics raise
AppendResultOrDrop(rows, stock_id, dd, all_conditions) ==
  IF TechnicalMetricsRaise(Dropna(dd.close[stock_id]), dd, stock_id) THEN rows
  ELSE Append(rows, ResultRecord(stock_id, Dropna(dd.close[stock_id]), dd,
                                 all_conditions))

\* the body of `if all(all_conditions):`: compute the metrics, append
AppendResult(rows, stock_id, dd, all_conditions) ==
  Append(rows, ResultRecord(stock_id, Dropna(dd.close[stock_id]), dd,
                            all_conditions))

EvaluateOne(stock_id, dd) ==
  LET stock_close == Dropna(dd.close[stock_id])
  IN IF InsufficientHistory(stock_close)
     THEN Outcome("insufficient_history", <<>>, NoRecord)
     ELSE IF Raises(stock_close)
     THEN Outcome("raised", <<>>, NoRecord)
     ELSE
       LET condition1 == Condition1(stock_close)
       IN IF ~condition1
          THEN Outcome("not_new_high", <<condition1>>, NoRecord)
          ELSE
            LET condition2 == Condition2(stock_close)
            IN IF Len(CheckPeriod(stock_close)) < confirmation_period
               THEN Outcome("short_check_period", <<condition1, condition2>>, NoRecord)
               ELSE
                 LET all_conditions ==
                       <<condition1, condition2, Condition3(stock_close),
                         Condition4(stock_close), Condition5(stock_close),
                         Condition6(stock_close),
                         CheckRevenueGrowth(stock_id, dd),
                         CheckVolumeExpansion(stock_id, dd)>>
                 IN IF AllConditions(all_conditions)
                    THEN Outcome("evaluated", all_conditions,
                           AppendResult(<<>>, stock_id, dd, all_conditions))
                    ELSE Outcome("evaluated", all_conditions, NoRecord)

\* breakthrough_ratio of a before that of b:
\* (latest/resistance - 1) * 100 compared as a fraction
RatioGt(a, b) ==
  a.latest_price * b.resistance_break > b.latest_price * a.resistance_break

\* a sort that puts a record before the records it ties with
SortsBeforeOrTied(a, b) ==
  \/ a.conditions_met > b.conditions_met
  \/ a.conditions_met = b.conditions_met /\ ~RatioGt(b, a)

\* a sorts strictly before b under
\* sort_values(['conditions_met', 'breakthrough_ratio'], ascending=[False, False])
SortsBefore(a, b) ==
  \/ a.conditions_met > b.conditions_met
  \/ a.conditions_met = b.conditions_met /\ RatioGt(a, b)

\* insert r after every record that does not sort strictly after it
RECURSIVE InsertSorted(_, _)
InsertSorted(sorted, r) ==
  IF sorted = <<>> THEN <<r>>
  ELSE IF SortsBefore(r, Head(sorted)) THEN <<r>> \o sorted
       ELSE <<Head(sorted)>> \o InsertSorted(Tail(sorted), r)

RECURSIVE SortValues(_)
SortValues(rows) ==
  IF rows = <<>> THEN <<>>
  ELSE InsertSorted(SortValues(SubSeq(rows, 1, Len(rows) - 1)), rows[Len(rows)])

(***************************************************************************)
(* State.                                                                  *)
(***************************************************************************)
VARIABLES
  data_dict,        \* the panels: close, volume, monthly_revenue
  close_filtered,   \* the columns the evaluator iterates, in order
  i,                \* how many columns the loop has been through
  outcome,          \* per instrument: the outcome of its iteration
  results,          \* the list of appended records
  pc,               \* "loop" while iterating, "returned" after the return
  source,           \* run_analysis: the credentials and the data provider
  calls,            \* run_analysis: the methods invoked so far, in order
  sent,             \* run_analysis: the messages handed to Telegram
  retval,           \* run_analysis: its return value, "none" while running
  call,             \* a helper applied on its own: the call and its arguments
  ret               \* a helper applied on its own: what it returned

evalVars == <<data_dict, close_filtered, i, outcome, results>>
runVars == <<source, calls, sent, retval>>
unitVars == <<call, ret>>
vars == <<data_dict, close_filtered, i, outcome, results, pc,
          source, calls, sent, retval, call, ret>>

Pending == Outcome("pending", <<>>, NoRecord)

\* no provider, no helper call: the evaluator is called on its own
NoSource == [login |-> FALSE]
NoCall == [fn |-> "none"]

Init ==
  /\ data_dict \in InputData
  /\ close_filtered = Columns
  /\ i = 0
  /\ outcome = [s \in StockIds |-> Pending]
  /\ results = <<>>
  /\ pc = "loop"
  /\ source = NoSource
  /\ calls = <<>>
  /\ sent = <<>>
  /\ retval = "none"
  /\ call = NoCall
  /\ ret = NoCall

\* the loop without its except clause: an exception leaves the evaluator
AfterIterationPropagate(out) ==
  IF out.stage = "raised" THEN "aborted" ELSE "loop"

\* `except Exception as e: continue`: whatever the iteration did, the loop
\* goes on with the next column
AfterIteration(out) == "loop"

\* the body of `for i, stock_id in enumerate(close_filtered.columns)`
EvaluateStock ==
  /\ pc = "loop"
  /\ i < Len(close_filtered)
  /\ LET stock_id == close_filtered[i + 1]
         out == EvaluateOne(stock_id, data_dict)
     IN /\ outcome' = [outcome EXCEPT ![stock_id] = out]
        /\ results' = results \o out.appended
        /\ pc' = AfterIteration(out)
  /\ i' = i + 1
  /\ UNCHANGED <<data_dict, close_filtered>>
  /\ UNCHANGED <<runVars, unitVars>>

\* after the loop: sort the results (if any) and return
Return ==
  /\ pc = "loop"
  /\ i = Len(close_filtered)
  /\ results' = SortValues(results)
  /\ pc' = "returned"
  /\ UNCHANGED <<data_dict, close_filtered, i, outcome>>
  /\ UNCHANGED <<runVars, unitVars>>

Next == EvaluateStock \/ Return

Spec == Init /\ [][Next]_vars

(***************************************************************************)
(* The evaluator called with the columns in either order, on the example   *)
(* data changed in at most one place.                                      *)
(***************************************************************************)
ColumnOrders == {Columns, <<Columns[2], Columns[1]>>}

OrderData ==
  {BaseData(MaxDays)}
  \cup {ApplyEdit(BaseData(MaxDays), MaxDays, e) : e \in Edits}

OrderInit ==
  /\ data_dict \in OrderData
  /\ close_filtered \in ColumnOrders
  /\ i = 0
  /\ outcome = [s \in StockIds |-> Pending]
  /\ results = <<>>
  /\ pc = "loop"
  /\ source = NoSource
  /\ calls = <<>>
  /\ sent = <<>>
  /\ retval = "none"
  /\ call = NoCall
  /\ ret = NoCall

OrderSpec == OrderInit /\ [][Next]_vars

(***************************************************************************)
(* run_analysis.  source is what the run finds outside itself: whether the *)
(* FinLab token is set and the login works (login), whether data.get       *)
(* returns or raises for each key (fetch), and the panel it returns        *)
(* (panels; NoPanel is None).  The market-value fetch is wrapped in its    *)
(* own try/except and its result is never read, so it is left out.         *)
(***************************************************************************)
\* an initialisation that reports success whatever the login did
InitializeFinlabAlways(src) == src.login \in {"ok", "no_token", "login_fails"}

\* initialize_finlab
InitializeFinlab(src) == src.login = "ok"

\* DataFrame.empty: no columns or no rows
Rows(df) == IF DOMAIN df = {} THEN 0 ELSE Len(df[CHOOSE c \in DOMAIN df : TRUE])
Empty(df) == Rows(df) = 0

None == [none |-> TRUE]

\* get_stock_data without the check of the close panel
GetStockDataUnchecked(src) ==
  IF \E k \in {"close", "high", "volume"} : src.fetch[k] = "raises"
  THEN None
  ELSE [none |-> FALSE,
        close |-> src.panels.close.df,
        volume |-> src.panels.volume,
        monthly_revenue |->
          IF src.fetch.monthly_revenue = "raises" THEN NoPanel
          ELSE src.panels.monthly_revenue]

\* get_stock_data: None when a price fetch raises or the close panel is
\* None or empty; a revenue fetch that raises leaves monthly_revenue None
GetStockData(src) ==
  IF \E k \in {"close", "high", "volume"} : src.fetch[k] = "raises"
  THEN None
  ELSE IF src.panels.close.none \/ Empty(src.panels.close.df)
  THEN None
  ELSE [none |-> FALSE,
        close |-> src.panels.close.df,
        volume |-> src.panels.volume,
        monthly_revenue |->
          IF src.fetch.monthly_revenue = "raises" THEN NoPanel
          ELSE src.panels.monthly_revenue]

\* close.columns, in order
ColumnsOf(close) == SelectSeq(Columns, LAMBDA c : c \in DOMAIN close)

\* min(250, len(close) * 0.8)
MinDays(close) ==
  LET share == FMul(FromInt(Rows(close)), Literal_0_8)
  IN IF FGt(FromInt(history_cap), share) THEN share ELSE FromInt(history_cap)

\* valid_days >= min_days, valid_days = close.count()
ValidStock(close, c) ==
  FGe(FromInt(Len(Dropna(close[c]))), MinDays(close))
\* the price filter with a strict comparison
PriceFilterStrict(close, c) == Gt(ILoc(close[c], 1), min_price)

\* close.iloc[-1] >= 10
PriceFilter(close, c) == Ge(ILoc(close[c], 1), min_price)

\* volume.rolling(20).mean().iloc[-1] >= 1000: NaN, hence False, unless the
\* last 20 rows are all observed; an instrument without a volume column is
\* False after the alignment of `&`; True for all when volume is None
VolumeFilter(volume, c) ==
  IF volume.none THEN TRUE
  ELSE /\ c \in DOMAIN volume.df
       /\ Len(volume.df[c]) >= filter_window
       /\ LET window == TailN(volume.df[c], filter_window)
          IN /\ NaN \notin Range(window)
             /\ FGe(Mean(window), FromInt(min_volume))

\* apply_basic_filters: the columns of close.loc[:, basic_filter]
ApplyBasicFilters(dd) ==
  SelectSeq(ColumnsOf(dd.close),
            LAMBDA c : /\ ValidStock(dd.close, c)
                       /\ PriceFilter(dd.close, c)
                       /\ VolumeFilter(dd.volume, c))

\* format_results_message: the messages of the report, by kind
FormatResultsMessage(rows) ==
  IF rows = <<>> THEN <<"no_candidates">>
  ELSE <<"header">> \o [j \in 1..Min2(report_rows, Len(rows)) |-> "stock"]
       \o <<"footer">>

(***************************************************************************)
(* The runs explored: the example data on a panel of MaxDays or LongDays   *)
(* sessions, for one or both instruments, changed in at most one place     *)
(* that the basic filter looks at; and the example data with every         *)
(* combination of provider failures.                                       *)
(***************************************************************************)
\* the data dictionary restricted to the instruments ids
Universe(dd, ids) ==
  [close |-> [c \in (DOMAIN dd.close) \cap ids |-> dd.close[c]],
   volume |->
     IF dd.volume.none THEN dd.volume
     ELSE Panel([c \in (DOMAIN dd.volume.df) \cap ids |-> dd.volume.df[c]]),
   monthly_revenue |->
     IF dd.monthly_revenue.none THEN dd.monthly_revenue
     ELSE Panel([c \in (DOMAIN dd.monthly_revenue.df) \cap ids |->
                   dd.monthly_revenue.df[c]])]

RunDays == {MaxDays, LongDays}

\* the least whole number of sessions that is at least min(250, 0.8 n)
Threshold(n) == Min2(history_cap, (4 * n + 4) \div 5)

RunEdits(n) ==
  {[panel |-> "close", stock |-> Columns[1], kind |-> "cell", off |-> 1, val |-> v] :
      v \in {NaN, min_price - 1, min_price}}
  \cup {[panel |-> "close", stock |-> Columns[1], kind |-> "sparse",
         off |-> n - v, val |-> 0] : v \in {Threshold(n) - 1, Threshold(n)}}
  \cup {[panel |-> "volume", stock |-> Columns[1], kind |-> kd, off |-> 0, val |-> 0] :
      kd \in {"flat", "thin", "gap", "short", "nocol", "none"}}
  \cup {[panel |-> "monthly_revenue", stock |-> Columns[1], kind |-> kd, off |-> 0,
         val |-> 0] : kd \in {"decel", "nocol", "none"}}

RunData ==
  {Universe(ApplyEdits(BaseData(n), n, es), ids) :
     n \in RunDays, ids \in {{Columns[1]}, StockIds},
     es \in {<<>>} \cup {<<e>> : e \in UNION {RunEdits(m) : m \in RunDays}}}

FetchKeys == {"close", "high", "volume", "monthly_revenue"}

\* a provider that works and returns the panels of dd
Provider(dd) ==
  [login |-> "ok",
   fetch |-> [k \in FetchKeys |-> "ok"],
   panels |-> [close |-> Panel(dd.close), volume |-> dd.volume,
               monthly_revenue |-> dd.monthly_revenue]]

\* the ways the provider fails on the example data
Failures ==
  {[login |-> l,
    fetch |-> f,
    panels |-> [close |-> c, volume |-> v, monthly_revenue |-> r]] :
     l \in {"ok", "no_token", "login_fails"},
     f \in [FetchKeys -> {"ok", "raises"}],
     c \in {Panel(BaseData(MaxDays).close), Panel(<<>>), NoPanel},
     v \in {BaseData(MaxDays).volume, NoPanel},
     r \in {BaseData(MaxDays).monthly_revenue, NoPanel}}

Sources == {Provider(dd) : dd \in RunData} \cup Failures

RunInit ==
  /\ source \in Sources
  /\ data_dict = None
  /\ close_filtered = <<>>
  /\ i = 0
  /\ outcome = [s \in StockIds |-> Pending]
  /\ results = <<>>
  /\ pc = "init"
  /\ calls = <<>>
  /\ sent = <<>>
  /\ retval = "none"
  /\ call = NoCall
  /\ ret = NoCall

\* 1. if not self.initialize_finlab(): raise
RunInitializeFinlab ==
  /\ pc = "init"
  /\ calls' = Append(calls, "initialize_finlab")
  /\ pc' = IF InitializeFinlab(source) THEN "get_data" ELSE "failed"
  /\ UNCHANGED <<evalVars, source, sent, retval, unitVars>>

\* 2. data_dict = self.get_stock_data(); if data_dict is None: raise
RunGetStockData ==
  /\ pc = "get_data"
  /\ calls' = Append(calls, "get_stock_data")
  /\ data_dict' = GetStockData(source)
  /\ pc' = IF GetStockData(source).none THEN "failed" ELSE "filter"
  /\ UNCHANGED <<close_filtered, i, outcome, results, source, sent, retval, unitVars>>

\* 3. close_filtered = self.apply_basic_filters(data_dict);
\*    if close_filtered.empty: raise
\* 4. otherwise calculate_second_high_conditions is entered
RunApplyBasicFilters ==
  /\ pc = "filter"
  /\ close_filtered' = ApplyBasicFilters(data_dict)
  /\ IF ApplyBasicFilters(data_dict) = <<>>
     THEN /\ calls' = Append(calls, "apply_basic_filters")
          /\ pc' = "failed"
     ELSE /\ calls' = calls \o <<"apply_basic_filters",
                                 "calculate_second_high_conditions">>
          /\ pc' = "loop"
  /\ i' = 0
  /\ results' = <<>>
  /\ UNCHANGED <<data_dict, outcome, source, sent, retval, unitVars>>

\* 5. messages = self.format_results_message(results_df)
RunFormatResults ==
  /\ pc = "returned"
  /\ calls' = Append(calls, "format_results_message")
  /\ pc' = "send"
  /\ UNCHANGED <<evalVars, source, sent, retval, unitVars>>

\* success = self.send_telegram_message(message), for the next message;
\* whether Telegram accepts it is up to the outside
RunSendMessage ==
  /\ pc = "send"
  /\ Len(sent) < Len(FormatResultsMessage(results))
  /\ \E ok \in BOOLEAN :
       sent' = Append(sent, [kind |-> FormatResultsMessage(results)[Len(sent) + 1],
                             ok |-> ok])
  /\ UNCHANGED <<evalVars, pc, source, calls, retval, unitVars>>

\* overall_success = success_count > 0
OverallSuccess(attempts) ==
  \E j \in 1..Len(attempts) : attempts[j].ok

\* return overall_success
RunReturn ==
  /\ pc = "send"
  /\ Len(sent) = Len(FormatResultsMessage(results))
  /\ retval' = IF OverallSuccess(sent) THEN "True" ELSE "False"
  /\ pc' = "done"
  /\ UNCHANGED <<evalVars, source, calls, sent, unitVars>>

\* except Exception: send the error notification, return False
RunHandleException ==
  /\ pc = "failed"
  /\ \E ok \in BOOLEAN : sent' = Append(sent, [kind |-> "error", ok |-> ok])
  /\ retval' = "False"
  /\ pc' = "done"
  /\ UNCHANGED <<evalVars, source, calls, unitVars>>

RunNext ==
  \/ RunInitializeFinlab
  \/ RunGetStockData
  \/ RunApplyBasicFilters
  \/ EvaluateStock
  \/ Return
  \/ RunFormatResults
  \/ RunSendMessage
  \/ RunReturn
  \/ RunHandleException

RunSpec == RunInit /\ [][RunNext]_vars

(***************************************************************************)
(* _calculate_technical_score of the sibling controller.  Its arguments    *)
(* are floats that may be NaN (a rolling window not yet filled).           *)
(***************************************************************************)
\* position > 0.8 and position < 0.2 for
\* position = (price - low_60d) / range_60d, range_60d > 0
PositionAbove(price, low_60d, range_60d) ==
  /\ price - low_60d > 0
  /\ FGt(FDiv(price - low_60d, range_60d), Literal_0_8)
PositionBelow(price, low_60d, range_60d) ==
  \/ price - low_60d <= 0
  \/ FGt(Literal_0_2, FDiv(price - low_60d, range_60d))

\* the position adjustment granting the bonus from position 0.8 on
PositionAdjustInclusive(price, high_60d, low_60d) ==
  IF NaN \in {high_60d, low_60d} THEN 0
  ELSE LET range_60d == high_60d - low_60d
       IN IF range_60d <= 0 \/ price = NaN THEN 0
          ELSE IF price - low_60d > 0
                  /\ ~FGt(Literal_0_8, FDiv(price - low_60d, range_60d)) THEN 10
          ELSE IF PositionBelow(price, low_60d, range_60d) THEN 0 - 10
          ELSE 0

\* if range_60d > 0: +10 if position > 0.8, elif position < 0.2: -10;
\* every comparison with a NaN is False
PositionAdjust(price, high_60d, low_60d) ==
  IF NaN \in {high_60d, low_60d} THEN 0
  ELSE LET range_60d == high_60d - low_60d
       IN IF range_60d <= 0 \/ price = NaN THEN 0
          ELSE IF PositionAbove(price, low_60d, range_60d) THEN 10
          ELSE IF PositionBelow(price, low_60d, range_60d) THEN 0 - 10
          ELSE 0

\* the score with every bonus worth 15 and without the final clamp
CalculateTechnicalScoreUnclamped(price, sma20, sma60, high_60d, low_60d) ==
  50 + (IF Gt(price, sma20) THEN 15 ELSE 0)
     + (IF Gt(price, sma60) THEN 15 ELSE 0)
     + (IF Gt(sma20, sma60) THEN 15 ELSE 0)
     + (IF PositionAdjust(price, high_60d, low_60d) > 0 THEN 15
        ELSE PositionAdjust(price, high_60d, low_60d))

\* _calculate_technical_score
CalculateTechnicalScore(price, sma20, sma60, high_60d, low_60d) ==
  LET score == 50 + (IF Gt(price, sma20) THEN 15 ELSE 0)
                  + (IF Gt(price, sma60) THEN 15 ELSE 0)
                  + (IF Gt(sma20, sma60) THEN 10 ELSE 0)
                  + PositionAdjust(price, high_60d, low_60d)
  IN Max2(0, Min2(100, score))

(***************************************************************************)
(* analyze_candidates of the sibling controller, from the combination of   *)
(* the eight condition tables on, for one instrument.  A table is given by *)
(* what it holds for the instrument at target_date = close.index[-1]:      *)
(*   "true", "false"   its index holds target_date, with that value        *)
(*   "stale_true", "stale_false"                                           *)
(*                     its index does not hold target_date; the latest     *)
(*                     earlier row holds that value                        *)
(*   "no_column"       it has no column for the instrument                 *)
(* Tables 1-6 are computed from close and so hold target_date; table 7 has *)
(* the index of the monthly revenue panel and table 8 that of the volume   *)
(* panel.  The operator & on tables of different indexes is the data       *)
(* library's: a plain DataFrame joins the indexes and reads a missing cell *)
(* as False ("pandas"); FinLab's frames, which data.get returns, join the  *)
(* indexes, carry the latest earlier row forward and keep the common       *)
(* columns ("finlab").                                                     *)
(***************************************************************************)
\* the cell of one table in buy_signal.loc[target_date] after alignment
AlignedCell(cell, align) ==
  IF align = "finlab" THEN cell \in {"true", "stale_true"} ELSE cell = "true"

\* day_signals[stock_code] for
\* buy_signal = newhigh & cond2 & cond3 & cond4 & cond5 & cond6 & cond7 & cond8
BuySignal(conditions_list, align) ==
  \A k \in 1..Len(conditions_list) : AlignedCell(conditions_list[k], align)

\* passed: the tables with target_date in their index, stock_code among
\* their columns and a true cell there
Passed(conditions_list) ==
  Cardinality({k \in 1..Len(conditions_list) : conditions_list[k] = "true"})

\* _calculate_signal_strength: passed / total
CalculateSignalStrength(conditions_list) ==
  FDiv(Passed(conditions_list), Len(conditions_list))

\* the candidates analyze_candidates returns for the instrument
AnalyzeCandidates(stock_code, conditions_list, align) ==
  IF BuySignal(conditions_list, align)
  THEN <<[code |-> stock_code,
          signal_strength |-> CalculateSignalStrength(conditions_list)]>>
  ELSE <<>>

(***************************************************************************)
(* send_telegram_message.  A text is the sequence of the lengths of its    *)
(* lines (what split('\n') returns); a line has no white space at its      *)
(* ends, so strip() removes exactly the empty lines at the ends of a text. *)
(* A fragment is the run of lines first..last of the cleaned message; an   *)
(* empty run (last < first) is the empty string.                           *)
(***************************************************************************)
Fragment(first, last) == [first |-> first, last |-> last]

\* len() of the lines a..b joined by '\n'
TextLen(lines, a, b) ==
  IF b < a THEN 0 ELSE SeqSum(SubSeq(lines, a, b)) + (b - a)

\* strip() of the lines a..b
StripLines(lines, a, b) ==
  LET full == {k \in a..b : lines[k] > 0}
  IN IF full = {} THEN Fragment(a, a - 1)
     ELSE Fragment(CHOOSE k \in full : \A j \in full : k <= j,
                   CHOOSE k \in full : \A j \in full : j <= k)

\* cleaned_message = message.strip(), as lines; '' is one empty line
CleanedMessage(message) ==
  LET kept == StripLines(message, 1, Len(message))
  IN IF kept.last < kept.first THEN <<0>>
     ELSE SubSeq(message, kept.first, kept.last)

\* len(current_msg) when current_msg holds the lines a..b, each followed
\* by '\n'
CurrentLen(lines, a, b) == TextLen(lines, a, b) + (IF b < a THEN 0 ELSE 1)

\* the loop over lines from line k on; current_msg holds the lines
\* start..k-1 and messages the fragments closed so far
RECURSIVE SplitLines(_, _, _, _)
SplitLines(lines, k, start, messages) ==
  LET closed == IF start < k
                THEN Append(messages, StripLines(lines, start, k - 1))
                ELSE messages
  IN IF k > Len(lines) THEN closed
     ELSE IF CurrentLen(lines, start, k - 1) + lines[k] + 1 <= max_length
     THEN SplitLines(lines, k + 1, start, messages)
     ELSE SplitLines(lines, k + 1, k, closed)

\* messages: the fragments of the cleaned message
SplitMessage(message) ==
  LET lines == CleanedMessage(message)
  IN IF TextLen(lines, 1, Len(lines)) <= max_length
     THEN <<Fragment(1, Len(lines))>>
     ELSE SplitLines(lines, 1, 1, <<>>)

\* what requests.post does with a fragment
PostOutcomes == {"200", "400", "raises"}

(***************************************************************************)
(* The helpers applied on their own.  call holds the helper's name and its *)
(* arguments, ret what it returned.                                        *)
(***************************************************************************)
UnitIds == StockIds \cup {"1101", "2454"}

\* (latest_price, resistance_break) of a record: 105/104 and 210/208 are the
\* same breakout ratio, 110/104 and 105/100 are larger ones
PricePairs == {<<105, 104>>, <<210, 208>>, <<110, 104>>, <<105, 100>>}

\* the rows results can hold: every appended record has conditions_met = 8
RowRecords ==
  {[stock_id |-> s, latest_price |-> p[1], resistance_break |-> p[2],
    conditions_met |-> 8] : s \in UnitIds, p \in PricePairs}

\* lists of records of distinct instruments, in iteration order
RowLists ==
  {rows \in UNION {[1..n -> RowRecords] : n \in 0..MaxRows} :
     \A a, b \in 1..Len(rows) : a # b => rows[a].stock_id # rows[b].stock_id}

\* prices and averages handed to _calculate_technical_score: with a low of
\* 0 and a high of 5 the prices 1 and 4 sit exactly at positions 0.2 and 0.8
ScoreValues == {NaN, 0, 1, 4, 5, 6}

\* data dictionaries the append step is applied on: the example data with
\* one instrument's volume column changed or the volume panel removed, or
\* with its close at the resistance high, 60 or 120 sessions back changed
MetricsData ==
  {BaseData(MaxDays)}
  \cup {ApplyEdit(BaseData(MaxDays), MaxDays,
                  [panel |-> "volume", stock |-> Columns[1], kind |-> kd,
                   off |-> 0, val |-> 0]) :
          kd \in {"bad", "flat", "short", "nocol", "none"}}
  \cup {ApplyEdit(BaseData(MaxDays), MaxDays,
                  [panel |-> "close", stock |-> Columns[1], kind |-> "cell",
                   off |-> k, val |-> v]) :
          k \in {40, medium_term_period, long_term_period}, v \in {104, 105, 110}}

\* all(all_conditions) holds
AllTrue == [k \in 1..8 |-> TRUE]

\* the eight condition tables at the evaluation date
DailyCells == {"true", "false"}
OtherCells == {"true", "false", "stale_true", "stale_false", "no_column"}
ConditionTables ==
  {t \in [1..8 -> OtherCells] : \A k \in 1..6 : t[k] \in DailyCells}

\* line lengths around max_length and messages of up to MaxLines lines
LineLengths ==
  {0, 1, max_length \div 2, max_length - 1, max_length, max_length + 1}
Messages == UNION {[1..n -> LineLengths] : n \in 1..MaxLines}

UnitCalls ==
  {[fn |-> "sort_values", rows |-> rows] : rows \in RowLists}
  \cup {[fn |-> "send_telegram_message", message |-> msg, configured |-> c] :
          msg \in Messages, c \in BOOLEAN}
  \cup {[fn |-> "analyze_candidates", stock_code |-> Columns[1],
         conditions_list |-> t, align |-> a] :
          t \in ConditionTables, a \in {"pandas", "finlab"}}
  \cup {[fn |-> "append", rows |-> rows, stock_id |-> s, data_dict |-> dd] :
          rows \in {rs \in RowLists : Len(rs) <= 1 /\ \A j \in 1..Len(rs) :
                                        rs[j].stock_id \notin StockIds},
          s \in StockIds, dd \in MetricsData}
  \cup {[fn |-> "_calculate_technical_score", price |-> p, sma20 |-> a,
         sma60 |-> b, high_60d |-> h, low_60d |-> l] :
          p \in ScoreValues, a \in ScoreValues, b \in ScoreValues,
          h \in ScoreValues, l \in ScoreValues}

UnitInit ==
  /\ data_dict = NoPanel
  /\ close_filtered = <<>>
  /\ i = 0
  /\ outcome = [s \in StockIds |-> Pending]
  /\ results = <<>>
  /\ pc = "call"
  /\ source = NoSource
  /\ calls = <<>>
  /\ sent = <<>>
  /\ retval = "none"
  /\ call \in UnitCalls
  /\ ret = NoCall

\* df.sort_values(['conditions_met', 'breakthrough_ratio'],
\*                ascending=[False, False])
CallSortValues ==
  /\ pc = "call"
  /\ call.fn = "sort_values"
  /\ ret' = [fn |-> call.fn, value |-> SortValues(call.rows)]
  /\ pc' = "done"
  /\ UNCHANGED <<evalVars, runVars, call>>

\* tech_score = self._calculate_technical_score(current_price, sma20, sma60,
\*                                               high_60d, low_60d)
CallTechnicalScore ==
  /\ pc = "call"
  /\ call.fn = "_calculate_technical_score"
  /\ ret' = [fn |-> call.fn,
             value |-> CalculateTechnicalScore(call.price, call.sma20, call.sma60,
                                               call.high_60d, call.low_60d)]
  /\ pc' = "done"
  /\ UNCHANGED <<evalVars, runVars, call>>

\* tech_metrics = self.calculate_technical_metrics(...);
\* results.append({..., **tech_metrics, ...})
CallAppend ==
  /\ pc = "call"
  /\ call.fn = "append"
  /\ ret' = [fn |-> call.fn,
             value |-> AppendResult(call.rows, call.stock_id, call.data_dict,
                                    AllTrue)]
  /\ pc' = "done"
  /\ UNCHANGED <<evalVars, runVars, call>>

\* analyze_candidates, steps 4 to 9
CallAnalyzeCandidates ==
  /\ pc = "call"
  /\ call.fn = "analyze_candidates"
  /\ ret' = [fn |-> call.fn,
             value |-> AnalyzeCandidates(call.stock_code, call.conditions_list,
                                         call.align)]
  /\ pc' = "done"
  /\ UNCHANGED <<evalVars, runVars, call>>

\* send_telegram_message up to the loop over the fragments: False at once
\* without a token or a chat id
CallSendTelegramMessage ==
  /\ pc = "call"
  /\ call.fn = "send_telegram_message"
  /\ IF call.configured
     THEN /\ ret' = [fn |-> "posting", messages |-> SplitMessage(call.message)]
          /\ pc' = "post"
     ELSE /\ ret' = [fn |-> call.fn, value |-> "False"]
          /\ pc' = "done"
  /\ UNCHANGED <<evalVars, runVars, call>>

\* response = requests.post(url, data=data, timeout=30) for the next
\* fragment: accepted, refused or raising, as the outside decides
PostFragment ==
  /\ pc = "post"
  /\ Len(sent) < Len(ret.messages)
  /\ \E status \in PostOutcomes :
       sent' = Append(sent, [text |-> ret.messages[Len(sent) + 1],
                             status |-> status])
  /\ UNCHANGED <<evalVars, pc, source, calls, retval, unitVars>>

\* return True if success_count > 0 else False
ReturnFromSend ==
  /\ pc = "post"
  /\ Len(sent) = Len(ret.messages)
  /\ ret' = [fn |-> call.fn,
             value |-> IF \E j \in 1..Len(sent) : sent[j].status = "200"
                       THEN "True" ELSE "False"]
  /\ pc' = "done"
  /\ UNCHANGED <<evalVars, runVars, call>>

UnitNext ==
  \/ CallSortValues
  \/ CallSendTelegramMessage
  \/ PostFragment
  \/ ReturnFromSend
  \/ CallAnalyzeCandidates
  \/ CallAppend
  \/ CallTechnicalScore

UnitSpec == UnitInit /\ [][UnitNext]_vars

(***************************************************************************)
(* Vocabulary of the properties.  A session is named by its position from  *)
(* the end of the instrument's non-missing closes: position 1 is the       *)
(* evaluation date (iloc[-1]), position k + 1 is k sessions earlier.       *)
(***************************************************************************)
History(s) == Dropna(data_dict.close[s])
At(h, k) == h[Len(h) - k + 1]
Latest(h) == At(h, 1)
\* the highest close among the positions from..to
HighOver(h, from, to) ==
  LET vals == {At(h, k) : k \in from..to}
  IN CHOOSE x \in vals : \A y \in vals : y <= x
\* the trailing-60-session high of the session at position k, itself included
TrailingHigh(h, k) == HighOver(h, k, k + 59)

Processed(s) == outcome[s].stage # "pending"
\* the iteration computed all eight conditions
Evaluated(s) == outcome[s].stage = "evaluated"
Emitted(s) == \E j \in 1..Len(results) : results[j].stock_id = s
\* the iteration got as far as computing condition n
Computed(s, n) == Len(outcome[s].conds) >= n
LongEnough(s) == Len(History(s)) >= 130

\* the eight conditions as the design document words them
DocCondition1(h) == Latest(h) >= HighOver(h, 1, 60)
DocCondition2(h) == \E k \in 2..31 : At(h, k) < TrailingHigh(h, k)
DocCondition3(h) == \E k \in 31..55 : At(h, k) >= TrailingHigh(h, k)
DocCondition4(h) == Latest(h) > HighOver(h, 31, 55)
DocCondition5(h) == Latest(h) > At(h, 121)
DocCondition6(h) == Latest(h) > At(h, 61)

\* the non-missing observations of a column, or none when the panel or the
\* column is absent
Observed(panel, s) ==
  IF panel.none \/ s \notin DOMAIN panel.df THEN <<>> ELSE Dropna(panel.df[s])
\* the sum of the last n observations
LastSum(obs, n) == SeqSum(SubSeq(obs, Len(obs) - n + 1, Len(obs)))

DocCondition7(s) ==
  LET obs == Observed(data_dict.monthly_revenue, s)
  IN \/ Len(obs) < 12
     \/ NotANumber \in Range(SubSeq(obs, Len(obs) - 11, Len(obs)))
     \/ 4 * LastSum(obs, 3) > LastSum(obs, 12)

DocCondition8(s) ==
  LET obs == Observed(data_dict.volume, s)
  IN \/ Len(obs) < 20
     \/ NotANumber \in Range(SubSeq(obs, Len(obs) - 19, Len(obs)))
     \/ 10 * LastSum(obs, 5) > 3 * LastSum(obs, 20)

(***************************************************************************)
(* Properties.                                                             *)
(***************************************************************************)

\* C1: every record in results carries conditions_met = 8 and eight true
\* condition_details, and an instrument whose iteration found any condition
\* false (or never computed all eight) has no record in results.
C1_NoPartialPass ==
  /\ \A j \in 1..Len(results) :
        /\ results[j].conditions_met = 8
        /\ \A n \in 1..8 : results[j].condition_details[n]
  /\ \A s \in StockIds :
        Emitted(s) =>
          /\ Evaluated(s)
          /\ \A n \in 1..8 : outcome[s].conds[n]

\* an instrument went through all eight conditions, one of them was false,
\* and the evaluator returned without a record for it
C1_Witness ==
  /\ pc = "returned"
  /\ \E s \in StockIds :
        /\ Evaluated(s)
        /\ \E n \in 1..8 : ~outcome[s].conds[n]
        /\ ~Emitted(s)

DocPasses(s) ==
  /\ LongEnough(s)
  /\ DocCondition1(History(s))
  /\ DocCondition2(History(s))
  /\ DocCondition3(History(s))
  /\ DocCondition4(History(s))
  /\ DocCondition5(History(s))
  /\ DocCondition6(History(s))
  /\ DocCondition7(s)
  /\ DocCondition8(s)

\* C2: once the evaluator has returned, every instrument with at least 130
\* closes that satisfies the eight conditions as the design document words
\* them has a record in results.
C2_Complete ==
  pc = "returned" => \A s \in StockIds : DocPasses(s) => Emitted(s)

\* C3 as stated: condition 1 is true when the latest close is strictly above
\* the highest close of the 60 sessions before the evaluation date, and false
\* when it is below that high.
C3_Original ==
  \A s \in StockIds :
    Computed(s, 1) =>
      /\ Latest(History(s)) > HighOver(History(s), 2, 61) => outcome[s].conds[1]
      /\ Latest(History(s)) < HighOver(History(s), 2, 61) => ~outcome[s].conds[1]

\* C3 amended: condition 1 is true exactly when the latest close is at or
\* above the highest close of the 59 sessions before the evaluation date (the
\* rest of the trailing 60-session window that includes the evaluation date);
\* an instrument whose condition 1 is false is not emitted.
C3_Condition1 ==
  \A s \in StockIds :
    Computed(s, 1) =>
      /\ outcome[s].conds[1] <=> Latest(History(s)) >= HighOver(History(s), 2, 60)
      /\ ~outcome[s].conds[1] => ~Emitted(s)

\* one instrument closed above its prior 59-session high and has condition 1
\* true, another closed below it and has condition 1 false
C3_Witness ==
  \E s, t \in StockIds :
    /\ Computed(s, 1) /\ Computed(t, 1)
    /\ Latest(History(s)) > HighOver(History(s), 2, 60) /\ outcome[s].conds[1]
    /\ Latest(History(t)) < HighOver(History(t), 2, 60) /\ ~outcome[t].conds[1]

\* C4: condition 2 is true exactly when one of the 30 sessions before the
\* evaluation date closed strictly below its own trailing-60-session high.
C4_Condition2 ==
  \A s \in StockIds :
    Computed(s, 2) => (outcome[s].conds[2] <=> DocCondition2(History(s)))

\* C5: condition 3 is true exactly when one of the 25 sessions at positions
\* [-55,-30) closed at or above its own trailing-60-session high.
C5_Condition3 ==
  \A s \in StockIds :
    Computed(s, 3) => (outcome[s].conds[3] <=> DocCondition3(History(s)))

\* C6: condition 4 is true exactly when the latest close is strictly greater
\* than the highest close of the 25 sessions at positions [-55,-30); a latest
\* close equal to that resistance level does not pass.
C6_Condition4 ==
  \A s \in StockIds :
    Computed(s, 4) => (outcome[s].conds[4] <=> DocCondition4(History(s)))

\* an evaluated instrument closed exactly at its resistance level and has
\* condition 4 false
C6_Witness ==
  \E s \in StockIds :
    /\ Computed(s, 4)
    /\ Latest(History(s)) = HighOver(History(s), 31, 55)
    /\ ~outcome[s].conds[4]

\* C7: condition 5 is true exactly when the latest close is strictly greater
\* than the close 120 sessions before the evaluation date, and condition 6
\* exactly when it is strictly greater than the close 60 sessions before it.
C7_Trend ==
  \A s \in StockIds :
    Computed(s, 6) =>
      /\ outcome[s].conds[5] <=> DocCondition5(History(s))
      /\ outcome[s].conds[6] <=> DocCondition6(History(s))

\* C8: check_revenue_growth is true exactly when the mean of the last 3
\* non-missing monthly revenues is strictly greater than the mean of the last
\* 12, and true whenever the revenue panel is absent, the instrument has no
\* revenue column or fewer than 12 non-missing months, or the computation
\* raises; condition 7 of an evaluated instrument is that value.
C8_RevenueGrowth ==
  \A s \in StockIds :
    /\ CheckRevenueGrowth(s, data_dict) <=> DocCondition7(s)
    /\ Computed(s, 7) => (outcome[s].conds[7] <=> DocCondition7(s))

\* an evaluated instrument with 12 months of revenue whose 3-month mean does
\* not exceed its 12-month mean has condition 7 false
C8_Witness ==
  \E s \in StockIds :
    /\ Computed(s, 7)
    /\ Len(Observed(data_dict.monthly_revenue, s)) >= 12
    /\ ~outcome[s].conds[7]

\* C9: condition 8 is true exactly when the 5-session mean volume is strictly
\* greater than 1.2 times the 20-session mean volume, and true whenever the
\* volume panel is absent, the instrument has no volume column or fewer than
\* 20 non-missing volumes; an expansion of 20% or less does not pass.
C9_VolumeExpansion ==
  \A s \in StockIds :
    Computed(s, 8) => (outcome[s].conds[8] <=> DocCondition8(s))

\* C10: an instrument with fewer than 130 non-missing closes is skipped
\* before any condition is computed and has no record in results.
C10_InsufficientHistory ==
  \A s \in StockIds :
    (Processed(s) /\ ~LongEnough(s)) =>
      /\ outcome[s].stage = "insufficient_history"
      /\ outcome[s].conds = <<>>
      /\ ~Emitted(s)

\* the evaluator returned having skipped an instrument with 129 closes
C10_Witness ==
  /\ pc = "returned"
  /\ \E s \in StockIds :
        /\ Len(History(s)) = 129
        /\ outcome[s].stage = "insufficient_history"

\* the data dictionary with instrument s taken out of every panel
WithoutInstrument(dd, s) ==
  [close |-> [c \in (DOMAIN dd.close) \ {s} |-> dd.close[c]],
   volume |-> DropColumn(dd.volume, s),
   monthly_revenue |-> DropColumn(dd.monthly_revenue, s)]

\* evaluating s raises: it has the history the evaluator asks for and one of
\* its closes is not a number
RaisesFor(s) == LongEnough(s) /\ Raises(History(s))

\* C11: an instrument whose evaluation raises is excluded from the results,
\* the exception never leaves the evaluator, every instrument after it is
\* still evaluated before the evaluator returns, and the outcome of every
\* other instrument is what it is on the data without the raising instrument.
C11_FailureIsolation ==
  /\ pc \in {"loop", "returned"}
  /\ pc = "returned" =>
       \A j \in 1..Len(close_filtered) : Processed(close_filtered[j])
  /\ \A s \in StockIds :
       (Processed(s) /\ RaisesFor(s)) =>
         /\ outcome[s].stage = "raised"
         /\ ~Emitted(s)
         /\ \A t \in StockIds \ {s} :
              Processed(t) =>
                outcome[t] = EvaluateOne(t, WithoutInstrument(data_dict, s))

\* the evaluator returned after the first instrument raised and the one
\* after it went through all eight conditions
C11_Witness ==
  /\ pc = "returned"
  /\ outcome[close_filtered[1]].stage = "raised"
  /\ outcome[close_filtered[2]].stage = "evaluated"

\* the place of instrument s in a list of records
IndexOf(rows, s) == CHOOSE j \in 1..Len(rows) : rows[j].stock_id = s
SameRatio(a, b) == ~RatioGt(a, b) /\ ~RatioGt(b, a)

\* C12: the ranked list holds the records it was given, each adjacent pair
\* has the earlier record's breakout ratio greater than or equal to the
\* later one's, and records of equal breakout ratio keep the order in which
\* their instruments were iterated.
C12_Ranking ==
  ret.fn = "sort_values" =>
    /\ Len(ret.value) = Len(call.rows)
    /\ Range(ret.value) = Range(call.rows)
    /\ \A j \in 1..(Len(ret.value) - 1) :
         ~RatioGt(ret.value[j + 1], ret.value[j])
    /\ \A a, b \in 1..Len(ret.value) :
         (a < b /\ SameRatio(ret.value[a], ret.value[b])) =>
           IndexOf(call.rows, ret.value[a].stock_id)
             < IndexOf(call.rows, ret.value[b].stock_id)

\* a list was reordered by the ranking and two of its records tie
C12_Witness ==
  /\ ret.fn = "sort_values"
  /\ ret.value # call.rows
  /\ \E a, b \in 1..Len(ret.value) :
       a < b /\ SameRatio(ret.value[a], ret.value[b])

\* apply_basic_filters has returned
Filtered == "apply_basic_filters" \in Range(calls)

\* the instrument has enough non-missing closes, a latest close of at least
\* 10 and, unless there is no volume panel, a mean volume of at least 1000
\* over the last 20 sessions
DocKeeps(dd, c) ==
  LET valid == Len(Dropna(dd.close[c]))
      latest == ILoc(dd.close[c], 1)
  IN /\ valid >= history_cap \/ 5 * valid >= 4 * Rows(dd.close)
     /\ latest # NaN /\ latest >= min_price
     /\ \/ dd.volume.none
        \/ /\ c \in DOMAIN dd.volume.df
           /\ LET window == TailN(dd.volume.df[c], filter_window)
              IN /\ Len(window) = filter_window
                 /\ NaN \notin Range(window)
                 /\ SeqSum(window) >= filter_window * min_volume

\* C13: the basic filter returns exactly the columns of the close panel with
\* at least min(250, 0.8 * total_days) non-missing closes, a latest close of
\* at least 10 and a 20-session mean volume of at least 1000 (waived when
\* there is no volume panel), in the order of the close panel, and leaves
\* the data dictionary as get_stock_data returned it.
C13_BasicFilter ==
  Filtered =>
    /\ close_filtered =
         SelectSeq(ColumnsOf(data_dict.close), LAMBDA c : DocKeeps(data_dict, c))
    /\ data_dict = GetStockData(source)

\* the filter dropped the first of two instruments and kept the second
C13_Witness ==
  /\ Filtered
  /\ Len(ColumnsOf(data_dict.close)) = 2
  /\ close_filtered = <<Columns[2]>>
  /\ ~data_dict.volume.none

\* the kinds of the messages handed to send_telegram_message so far
SentKinds == {sent[j].kind : j \in 1..Len(sent)}

\* C14: when the basic filter drops every instrument the run does not take
\* the failure path and sends no error notification; it ends having sent
\* the no-candidates report.
C14_EmptyUniverse ==
  (Filtered /\ close_filtered = <<>>) =>
    /\ pc # "failed"
    /\ "error" \notin SentKinds
    /\ pc = "done" => "no_candidates" \in SentKinds

\* the same prices and volumes with the revenue panel removed
RevenueRemoved(dd) == [dd EXCEPT !.monthly_revenue = NoPanel]
\* the instrument passes: a record is appended for it
Passes(out) == out.appended # NoRecord
\* all eight conditions were computed and all but condition 7 are true
AllButRevenue(out) ==
  /\ out.stage = "evaluated"
  /\ \A k \in (1..8) \ {7} : out.conds[k]

\* C15: on the same prices and volumes, an instrument passes with the
\* revenue panel removed exactly when its conditions 1-6 and 8 hold; an
\* instrument that passes with the panel passes without it; the two runs
\* reach the same stage and their condition vectors differ at most in
\* condition 7, which is true without the panel, so an outcome that differs
\* had condition 7 false with the panel.
C15_RevenueFailOpen ==
  pc \in {"loop", "returned"} =>
    \A s \in StockIds :
      Processed(s) =>
        LET with == outcome[s]
            without == EvaluateOne(s, RevenueRemoved(data_dict))
        IN /\ Passes(without) <=> AllButRevenue(with)
           /\ Passes(with) => Passes(without)
           /\ without.stage = with.stage
           /\ with.stage = "evaluated" =>
                /\ \A k \in (1..8) \ {7} : without.conds[k] = with.conds[k]
                /\ without.conds[7]
           /\ without # with =>
                with.stage = "evaluated" /\ ~with.conds[7]

\* an instrument went through all eight conditions with condition 7 false,
\* and has condition 7 true once the revenue panel is removed
C15_Witness ==
  /\ pc = "returned"
  /\ \E s \in StockIds :
       /\ outcome[s].stage = "evaluated"
       /\ ~outcome[s].conds[7]
       /\ EvaluateOne(s, RevenueRemoved(data_dict)).conds[7]

\* _calculate_technical_score has returned
Scored == ret.fn = "_calculate_technical_score"
\* the 60-session range of the call, where both ends are numbers
RangeOf(c) == c.high_60d - c.low_60d
HasRange(c) == NaN \notin {c.high_60d, c.low_60d}

\* C16: the technical score is a whole number from 0 to 100 whatever the
\* price, the two averages, the 60-session high and the 60-session low,
\* a zero or negative high-low range included.
C16_ScoreRange ==
  Scored => ret.value \in 0..100

\* a score computed for a high below the low, with both trend bonuses
C16_Witness ==
  /\ Scored
  /\ HasRange(call) /\ RangeOf(call) < 0
  /\ ret.value = 90

\* 1 when the comparison x > y holds, 0 when it does not or a side is NaN
Indicator(x, y) == IF x # NaN /\ y # NaN /\ x > y THEN 1 ELSE 0
\* the position terms apply: the range is positive and the price a number
PositionApplies(c) == HasRange(c) /\ RangeOf(c) > 0 /\ c.price # NaN
\* position > 0.8 and position < 0.2, in whole numbers
DocAbove(c) == PositionApplies(c) /\ 5 * (c.price - c.low_60d) > 4 * RangeOf(c)
DocBelow(c) == PositionApplies(c) /\ 5 * (c.price - c.low_60d) < RangeOf(c)
DocScore(c) ==
  50 + 15 * Indicator(c.price, c.sma20) + 15 * Indicator(c.price, c.sma60)
     + 10 * Indicator(c.sma20, c.sma60)
     + (IF DocAbove(c) THEN 10 ELSE 0) - (IF DocBelow(c) THEN 10 ELSE 0)

\* C19: the technical score is 50 + 15*[price > sma20] + 15*[price > sma60]
\* + 10*[sma20 > sma60] + 10*[position > 0.8] - 10*[position < 0.2] clamped
\* to [0,100], the position terms applying only for a positive high-low
\* range, and the two position adjustments never both apply.
C19_ScoreFormula ==
  Scored =>
    /\ ret.value = Max2(0, Min2(100, DocScore(call)))
    /\ ~(DocAbove(call) /\ DocBelow(call))

\* a score computed for a price exactly at position 0.8 of a positive range
C19_Witness ==
  /\ Scored
  /\ PositionApplies(call)
  /\ 5 * (call.price - call.low_60d) = 4 * RangeOf(call)

\* the provider has no close panel to give, or an empty one
CloseUnavailable == source.panels.close.none \/ Empty(source.panels.close.df)

\* C17: when the close panel is None or empty, apply_basic_filters and
\* calculate_second_high_conditions are never invoked and run_analysis
\* returns False.
C17_InputUnavailable ==
  CloseUnavailable =>
    /\ "apply_basic_filters" \notin Range(calls)
    /\ "calculate_second_high_conditions" \notin Range(calls)
    /\ retval # "True"
    /\ pc = "done" => retval = "False"

\* the run ended right after get_stock_data found no close panel, the
\* login and every fetch having worked
C17_Witness ==
  /\ CloseUnavailable
  /\ source.login = "ok"
  /\ \A k \in FetchKeys : source.fetch[k] = "ok"
  /\ pc = "done"
  /\ calls = <<"initialize_finlab", "get_stock_data">>
  /\ retval = "False"

\* the volume or the revenue panel cannot be fetched or is None
VolumeMissing == source.fetch.volume = "raises" \/ source.panels.volume.none
RevenueMissing ==
  source.fetch.monthly_revenue = "raises" \/ source.panels.monthly_revenue.none
\* the login and the fetches of the close and high panels work and the close
\* panel has instruments
RequiredAvailable ==
  /\ source.login = "ok"
  /\ source.fetch.close = "ok" /\ source.fetch.high = "ok"
  /\ ~CloseUnavailable

\* C18: when the only thing missing is the volume or the revenue panel,
\* get_stock_data returns the data dictionary and the run goes on to the
\* basic filter; every instrument the evaluator is given is evaluated, and
\* where all eight conditions are computed, condition 7 is true when the
\* revenue panel is missing and condition 8 when the volume panel is.
C18_OptionalDataMissing ==
  (RequiredAvailable /\ (VolumeMissing \/ RevenueMissing)) =>
    /\ "get_stock_data" \in Range(calls) =>
         /\ ~data_dict.none
         /\ pc = "done" => Filtered
    /\ (pc = "done" /\ retval = "True") =>
         \A j \in 1..Len(close_filtered) :
           LET out == outcome[close_filtered[j]]
           IN /\ out.stage # "pending"
              /\ out.stage = "evaluated" =>
                   /\ RevenueMissing => out.conds[7]
                   /\ VolumeMissing => out.conds[8]

\* the append step has run for an instrument whose metrics raise
MetricsFailed ==
  /\ ret.fn = "append"
  /\ TechnicalMetricsRaise(Dropna(call.data_dict.close[call.stock_id]),
                           call.data_dict, call.stock_id)

\* C20: when computing the metrics of an instrument that met all eight
\* conditions raises, calculate_technical_metrics returns ma5 = ma10 = ma20
\* = 0, rsi = 50, volume_ratio = 1.0 and volatility = 0, and the instrument's
\* record is appended to the results with those values.
C20_MetricsFailure ==
  MetricsFailed =>
    /\ \A f \in {"ma5", "ma10", "ma20", "volatility"} :
         CalculateTechnicalMetrics(Dropna(call.data_dict.close[call.stock_id]),
                                   call.data_dict, call.stock_id)[f] = [const |-> "0"]
    /\ Len(ret.value) = Len(call.rows) + 1
    /\ SubSeq(ret.value, 1, Len(call.rows)) = call.rows
    /\ LET rec == ret.value[Len(ret.value)]
       IN /\ rec.stock_id = call.stock_id
          /\ rec.conditions_met = 8
          /\ rec.ma5 = [const |-> "0"]
          /\ rec.ma10 = [const |-> "0"]
          /\ rec.ma20 = [const |-> "0"]
          /\ rec.rsi = [const |-> "50"]
          /\ rec.volume_ratio = [const |-> "1.0"]
          /\ rec.volatility = [const |-> "0"]

\* a record was appended after an earlier one for an instrument one of
\* whose last 20 volumes is not a number
C20_Witness ==
  /\ MetricsFailed
  /\ Len(call.rows) = 1
  /\ Len(ret.value) = 2
  /\ ret.value[2].stock_id = Columns[1]

\* the outcome of s computed from its own columns alone
OwnOutcome(s) == EvaluateOne(s, Universe(data_dict, {s}))

\* C21: the outcome of an instrument, and whether and with what record it
\* is emitted, is the outcome computed from its own close, volume and
\* revenue columns alone, whatever the other instrument's data and the
\* order of iteration; no step of the evaluator changes the panels, the
\* list of columns or the outcome of an instrument already evaluated.
C21_Independence ==
  /\ [](\A s \in StockIds :
          Processed(s) =>
            /\ outcome[s] = OwnOutcome(s)
            /\ pc = "returned" =>
                 /\ Emitted(s) <=> OwnOutcome(s).appended # NoRecord
                 /\ \A j \in 1..Len(results) :
                      results[j].stock_id = s => <<results[j]>> = OwnOutcome(s).appended)
  /\ [][/\ data_dict' = data_dict
        /\ close_filtered' = close_filtered
        /\ \A s \in StockIds : Processed(s) => outcome'[s] = outcome[s]]_vars

\* the evaluator went through the columns in reverse order and took both
\* instruments through all eight conditions with different results
C21_Witness ==
  /\ pc = "returned"
  /\ close_filtered = <<Columns[2], Columns[1]>>
  /\ \A s \in StockIds : outcome[s].stage = "evaluated"
  /\ outcome[Columns[1]].conds # outcome[Columns[2]].conds

\* C22: the signal strength of a candidate is the number of the eight
\* condition tables true for it at the evaluation date divided by 8, and
\* every candidate analyze_candidates returns has signal strength 1.0.
C22_SignalStrength ==
  ret.fn = "analyze_candidates" =>
    \A j \in 1..Len(ret.value) :
      /\ ret.value[j].signal_strength = FDiv(Passed(call.conditions_list), 8)
      /\ ret.value[j].signal_strength = FromInt(1)

\* the history the append step was applied to, and whether conditions 4, 5
\* and 6 hold of it, as they do of every instrument the evaluator appends
AppendedClose == Dropna(call.data_dict.close[call.stock_id])
TrendConditionsHold ==
  /\ Condition4(AppendedClose)
  /\ Condition5(AppendedClose)
  /\ Condition6(AppendedClose)

\* C23: in a record appended for an instrument meeting conditions 4, 5 and
\* 6 the stored resistance level and the stored closes of 120 and 60
\* sessions ago are strictly below the stored latest price, so that
\* breakthrough_ratio, long_term_gain and medium_term_gain are strictly
\* positive.
C23_PositiveGains ==
  (ret.fn = "append" /\ TrendConditionsHold) =>
    LET rec == ret.value[Len(ret.value)]
    IN /\ rec.resistance_break < rec.latest_price
       /\ rec.price_120d_ago < rec.latest_price
       /\ rec.price_60d_ago < rec.latest_price
       /\ GainPositive(rec.latest_price, rec.resistance_break)
       /\ GainPositive(rec.latest_price, rec.price_120d_ago)
       /\ GainPositive(rec.latest_price, rec.price_60d_ago)

\* a record was appended whose latest price is one tick above its
\* resistance level
C23_Witness ==
  /\ ret.fn = "append"
  /\ TrendConditionsHold
  /\ LET rec == ret.value[Len(ret.value)]
     IN rec.latest_price = rec.resistance_break + 1

\* the steps of run_analysis before the sending, in the order of the claim
Steps ==
  <<"initialize_finlab", "get_stock_data", "apply_basic_filters",
    "calculate_second_high_conditions", "format_results_message">>
\* what the provider allows: the login works; the three price fetches work
\* and the close panel has instruments
InitSucceeds == source.login = "ok"
DataSucceeds ==
  /\ \A k \in {"close", "high", "volume"} : source.fetch[k] = "ok"
  /\ ~CloseUnavailable
\* the basic filter ran and left at least one instrument
FilterSucceeded == Filtered /\ close_filtered # <<>>
EarlierStepsSucceeded == InitSucceeds /\ DataSucceeds /\ FilterSucceeded
\* the report messages handed to Telegram and the error notifications
Reports == SelectSeq(sent, LAMBDA msg : msg.kind # "error")
Errors == SelectSeq(sent, LAMBDA msg : msg.kind = "error")

\* C24: the steps run in the order initialise, acquire data, filter,
\* evaluate, format, send; evaluation happens only after the filter and
\* sending of the report only after formatting; the run returns True exactly
\* when initialisation, data acquisition and filtering succeeded and a
\* report message was sent successfully; every report message is attempted
\* whether or not an earlier one failed; after a failed step no later step
\* runs, one error notification is sent and the run returns False.
C24_RunOrder ==
  /\ \E n \in 0..Len(Steps) : calls = SubSeq(Steps, 1, n)
  /\ (\E s \in StockIds : Processed(s)) =>
       "calculate_second_high_conditions" \in Range(calls)
  /\ Reports # <<>> => calls = Steps
  /\ retval = "True" =>
       /\ EarlierStepsSucceeded
       /\ \E j \in 1..Len(Reports) : Reports[j].ok
  /\ pc = "done" =>
       IF EarlierStepsSucceeded
       THEN /\ calls = Steps
            /\ Errors = <<>>
            /\ Len(Reports) = Len(FormatResultsMessage(results))
            /\ retval = "True" <=> \E j \in 1..Len(Reports) : Reports[j].ok
            /\ retval \in {"True", "False"}
       ELSE /\ retval = "False"
            /\ Reports = <<>>
            /\ Len(Errors) = 1
            /\ calls = IF ~InitSucceeds THEN SubSeq(Steps, 1, 1)
                       ELSE IF ~DataSucceeds THEN SubSeq(Steps, 1, 2)
                       ELSE SubSeq(Steps, 1, 3)

\* a run that went through every step and returned True
C24_Witness ==
  /\ pc = "done"
  /\ calls = Steps
  /\ \A s \in StockIds : Processed(s)
  /\ retval = "True"

\* len() of a posted fragment
FragmentLen(fragment) ==
  TextLen(CleanedMessage(call.message), fragment.first, fragment.last)

\* C25: every fragment posted is at most 4000 characters long; fragments
\* are posted in the order of the text; every fragment is posted whatever
\* happened to the ones before it; and the function returns True exactly
\* when a fragment was accepted with status 200.
C25_TelegramFragments ==
  call.fn = "send_telegram_message" =>
    /\ \A j \in 1..Len(sent) : FragmentLen(sent[j].text) <= 4000
    /\ \A j, k \in 1..Len(sent) :
         j < k => sent[j].text.last < sent[k].text.first
    /\ pc = "done" =>
         /\ call.configured => Len(sent) = Len(SplitMessage(call.message))
         /\ ret.value = "True" <=> \E j \in 1..Len(sent) : sent[j].status = "200"

====
